---- MODULE Spec2Model ----
(***************************************************************************)
(* Link framing and request/response correlation of the Kori extension     *)
(* (src/extensions/scratch3_kori/index.js): the Kori peripheral object     *)
(* (send, sendChunk, _onMessage, the busy flag and its timer), the         *)
(* module-level emitter / dataBuffer / eventIndex, and the blocks that     *)
(* issue commands (getConfig, synthesize).                                 *)
(*                                                                         *)
(* JavaScript runs one task at a time, so every action below is one task   *)
(* of the event loop: a block call, the settling of a transport write, a   *)
(* timer callback, or a notification from the transport.  Microtasks       *)
(* (promise continuations) run to completion inside the task that queued   *)
(* them.                                                                   *)
(*                                                                         *)
(* Bytes are 0..255 and JavaScript string code units are 0..65535.  JSON   *)
(* texts are written in a compressed notation, one code unit per lexical   *)
(* unit: LBRACE, an event token, a command or response token, the text     *)
(* argument verbatim, RBRACE.                                              *)
(***************************************************************************)
EXTENDS Integers, Sequences, FiniteSets, TLC

\* ------------------------------------------------------------------ bounds
\* Number of commands (block calls) issued in one behaviour.
MaxCmds == 2
\* Number of messages the peripheral frames in one behaviour.
MaxRx == 2
\* Length of the long text argument of synthesize: with the three tokens
\* around it and the sentinel, the framed message no longer fits one chunk.
LongTextLen == 131
\* Longest payload of the round-trip specification.
MaxPayloadLen == 4
\* Longest text of the framing specification.
MaxTextLen == 2
\* Number of block calls that generate a key and send nothing (speak).
MaxSpeaks == 1
\* Number of messages the second instance's peripheral frames.
MaxRx2 == 1
\* Number of fragments notified to the earlier class's _onMessage.
MaxLegacyRx == 4

\* ------------------------------------------------------- program constants
\* The sentinel byte that _onMessage looks for.
Sentinel == 0
\* Characters per fragment written to the transport.
ChunkSize == 180
\* Width of a Uint8Array element.
ByteMod == 256
\* The base64 padding character '=' (the 64 data characters are 0..63).
B64Pad == 64

\* Tokens of the compressed JSON notation.
LBRACE == 123
RBRACE == 125
\* "event":"event0"; the token of event<N> is KeyTok0 + N.
KeyTok0 == 48
\* "cmd":"get_config","args":{}
CmdGetConfig == 103
\* "cmd":"synthesize","args":{"text": ...}
CmdSynthesize == 115
\* "response": a record with all the fields the getConfig handler reads.
RespFull == 82
\* "response": a record that lacks fields the getConfig handler reads.
RespPartial == 114
\* The character 'a' of a text argument.
CharA == 97
\* "event":"error": the event name EventEmitter reserves.
ErrorTok == 101
\* The character U+0100 of a text argument, a code unit above 255.
CharAmacron == 256
\* U+FFFD, the character toString() puts for a byte that is not UTF-8.
ReplacementChar == 65533
\* A byte that occurs in no UTF-8 sequence.
InvalidUtf8Byte == 255

Min(a, b) == IF a < b THEN a ELSE b

\* -------------------------------------------------------------- base64
\* Base64Util.uint8ArrayToBase64: three bytes become four 6-bit characters,
\* the last group padded with '='.
B64Enc(bytes) ==
    LET n == Len(bytes)
        at(i) == IF i <= n THEN bytes[i] ELSE 0
        ch(j) ==
            LET g == (j - 1) \div 4
                p == (j - 1) % 4
                b1 == at(3 * g + 1)
                b2 == at(3 * g + 2)
                b3 == at(3 * g + 3)
            IN CASE p = 0 -> b1 \div 4
                 [] p = 1 -> (b1 % 4) * 16 + (b2 \div 16)
                 [] p = 2 -> IF 3 * g + 2 > n THEN B64Pad
                             ELSE (b2 % 16) * 4 + (b3 \div 64)
                 [] p = 3 -> IF 3 * g + 3 > n THEN B64Pad ELSE b3 % 64
    IN [j \in 1..(4 * ((n + 2) \div 3)) |-> ch(j)]

\* Buffer.from(data, 'base64'): four characters become three bytes; the
\* padding carries no data.
B64Dec(chars) ==
    LET d == SelectSeq(chars, LAMBDA c : c # B64Pad)
        m == Len(d)
        at(j) == IF j <= m THEN d[j] ELSE 0
        by(i) ==
            LET g == (i - 1) \div 3
                p == (i - 1) % 3
                c1 == at(4 * g + 1)
                c2 == at(4 * g + 2)
                c3 == at(4 * g + 3)
                c4 == at(4 * g + 4)
            IN CASE p = 0 -> c1 * 4 + (c2 \div 16)
                 [] p = 1 -> (c2 % 16) * 16 + (c3 \div 4)
                 [] p = 2 -> (c3 % 4) * 64 + c4
    IN [i \in 1..((m * 3) \div 4) |-> by(i)]

\* ------------------------------------------------------ framing, chunking
\* displayText: output[i] = text.charCodeAt(i), stored in a Uint8Array, which
\* keeps the low 8 bits of the code unit.
DisplayTextBytes(text) == [i \in 1..Len(text) |-> text[i] % ByteMod]

\* A store into a Uint8Array at a 0-based index: ignored when the index is
\* outside the array.
TypedArrayStore(arr, idx0, v) ==
    IF idx0 < Len(arr) THEN [arr EXCEPT ![idx0 + 1] = v % ByteMod] ELSE arr

\* A faulty framing that appends no sentinel.
FramedUnterminated(message) == message

\* send, lines 373-378: a zero-filled array one longer than the message, the
\* message copied in, then '\0' (the number 0 once converted) stored at index
\* message.length + 1.
Framed(message) ==
    LET zeroed == [i \in 1..(Len(message) + 1) |-> 0]
        copied == [i \in 1..(Len(message) + 1) |->
                      IF i <= Len(message) THEN message[i] ELSE zeroed[i]]
    IN TypedArrayStore(copied, Len(message) + 1, 0)

\* A faulty loop that stops when fewer than 180 characters are left.
ChunksDropsLast(data) ==
    [k \in 1..(Len(data) \div ChunkSize) |->
        SubSeq(data, (k - 1) * ChunkSize + 1, k * ChunkSize)]

\* A faulty loop whose slices are one character short of the step.
ChunksShortSlice(data) ==
    [k \in 1..((Len(data) + ChunkSize - 1) \div ChunkSize) |->
        SubSeq(data, (k - 1) * ChunkSize + 1,
               Min(k * ChunkSize - 1, Len(data)))]

\* send, lines 382-385: data.substring(i, i + 180) for i = 0, 180, ...
Chunks(data) ==
    [k \in 1..((Len(data) + ChunkSize - 1) \div ChunkSize) |->
        SubSeq(data, (k - 1) * ChunkSize + 1, Min(k * ChunkSize, Len(data)))]

\* ------------------------------------------------------------------- JSON
KeyTok(n) == KeyTok0 + n

\* The key value that stands for the event name 'error'.
ErrorEvent == ErrorTok - KeyTok0

\* JSON.stringify({event, cmd, args}) of getConfig and synthesize; a direct
\* call of displayText passes its text as it is.
CmdText(kind, key, text) ==
    IF kind = "getConfig"
    THEN <<LBRACE, KeyTok(key), CmdGetConfig, RBRACE>>
    ELSE IF kind = "displayText"
    THEN text
    ELSE <<LBRACE, KeyTok(key), CmdSynthesize>> \o text \o <<RBRACE>>

\* The text of a peripheral message {event, response}.
RespText(key, resp) == <<LBRACE, KeyTok(key), resp, RBRACE>>

\* JSON.parse(bufWithoutLast.toString()) followed by the reads of json.event
\* and json.response: ok is FALSE when JSON.parse throws.  A text holding the
\* byte 0, an unbalanced brace or two texts in a row is not JSON.
JSONparse(bytes) ==
    IF /\ Len(bytes) = 4
       /\ bytes[1] = LBRACE
       /\ bytes[2] \in KeyTok0..(KeyTok0 + 9) \cup {ErrorTok}
       /\ bytes[3] \in {RespFull, RespPartial}
       /\ bytes[4] = RBRACE
    THEN [ok |-> TRUE, event |-> bytes[2] - KeyTok0, response |-> bytes[3]]
    ELSE [ok |-> FALSE, event |-> -1, response |-> 0]

\* ------------------------------------------------------------------ state
VARIABLES
    connected,      \* this._ble.isConnected()
    busy,           \* this._busy
    busyTimeoutID,  \* this._busyTimeoutID (0 is null)
    timers,         \* the busy timers window.setTimeout has armed and not yet run
    eventIndex,     \* the module-level eventIndex
    cmds,           \* the block calls made so far, each with the position of its send
    emitter,        \* the listeners of the module-level emitter, in registration order
    written,        \* the fragments handed to this._ble.write, in order: <<command, index>>
    output,         \* the Uint8Array the last accepted send() framed and encoded
    session2,       \* a second blocks instance with its own Kori peripheral: the keys
                    \* its block calls generated, and the bytes of its own link
    dataBuffer,     \* the module-level dataBuffer
    rxLog,          \* the messages the peripheral has framed so far
    rxStream,       \* the framed bytes the transport has not yet notified
    rxLast,         \* what the last call of this instance's _onMessage did
    legacy          \* a peripheral object of the earlier Kori class: its
                    \* fullMessage, the calls of its _onMessage, and the last one

vars == <<connected, busy, busyTimeoutID, timers, eventIndex, cmds, emitter,
          written, output, session2, dataBuffer, rxLog, rxStream, rxLast,
          legacy>>

gateVars == <<busy, busyTimeoutID, timers>>
rxVars == <<dataBuffer, rxLog, rxStream, rxLast>>

\* The texts synthesize is called with.
Texts == {[i \in 1..n |-> CharA] : n \in {0, LongTextLen}}

\* The short texts of the framing specification: JSON.stringify copies both
\* characters as they are.
FrameTexts == UNION {[1..n -> {CharA, CharAmacron}] : n \in 0..MaxTextLen}

\* The messages the peripheral sends: a full response to any key, a response
\* that lacks fields, and a text that is not JSON.
Garbage == <<LBRACE>>
RxMessages ==
    {RespText(k, RespFull) : k \in 0..MaxCmds}
        \cup {RespText(1, RespPartial), Garbage}

\* A message whose event is named 'error'.
ErrorMessage == <<LBRACE, ErrorTok, RespFull, RBRACE>>

\* What a call of _onMessage did: the branch it took, the bytes it took for
\* the message, the event it emitted and the commands whose listener it called.
Did(info, m, event, called) ==
    [info |-> info, bufWithoutLast |-> m, event |-> event, called |-> called]

\* send, lines 373-385: the chunks of a message.
ChunksOf(message) == Chunks(B64Enc(Framed(message)))

\* displayText and send, lines 285-289 and 373-378: the array send frames for
\* each command the blocks can issue.
OutputOf ==
    [kind \in {"getConfig", "synthesize", "displayText"},
     key \in 0..(MaxCmds + 2 * MaxSpeaks),
     text \in Texts \cup FrameTexts |->
        Framed(DisplayTextBytes(CmdText(kind, key, text)))]

\* The number of chunks send cuts for each command the blocks can issue.
NumChunks ==
    [kind \in {"getConfig", "synthesize", "displayText"},
     key \in 0..(MaxCmds + 2 * MaxSpeaks),
     text \in Texts \cup FrameTexts |->
        Len(ChunksOf(DisplayTextBytes(CmdText(kind, key, text))))]

\* The earlier class after construction: this.fullMessage = ''.
LegacyInit == [fullMessage |-> <<>>, calls |-> 0, info |-> "none"]

Init ==
    /\ connected = FALSE
    /\ busy = FALSE
    /\ busyTimeoutID = 0
    /\ timers = {}
    /\ eventIndex = 0
    /\ cmds = <<>>
    /\ emitter = <<>>
    /\ written = <<>>
    /\ output = <<>>
    /\ session2 = [keys |-> <<>>, rxLog |-> <<>>, rxStream |-> <<>>]
    /\ dataBuffer = <<>>
    /\ rxLog = <<>>
    /\ rxStream = <<>>
    /\ rxLast = Did("none", <<>>, -1, {})
    /\ legacy = LegacyInit

\* ------------------------------------------------------------- connection
\* The transport reports the peripheral connected (scan, connect, _onConnect).
Connect ==
    /\ ~connected
    /\ connected' = TRUE
    /\ UNCHANGED <<legacy, gateVars, eventIndex, cmds, emitter, written, output, session2, rxVars>>

\* disconnect(): this._ble.disconnect(), then reset(), which clears only the
\* data-reading timeout _timeoutID (never armed).
Disconnect ==
    /\ connected
    /\ connected' = FALSE
    /\ UNCHANGED <<legacy, gateVars, eventIndex, cmds, emitter, written, output, session2, rxVars>>

\* ------------------------------------------------------------------- send
\* A faulty send() that does not test the busy flag.
SendRejectionIgnoresBusy(isConnected, isBusy) ==
    IF ~isConnected THEN "notConnected" ELSE ""

\* The two early returns of send(): "" when the message is accepted.
SendRejection(isConnected, isBusy) ==
    IF ~isConnected THEN "notConnected"
    ELSE IF isBusy THEN "busy"
    ELSE ""

\* A faulty timer callback that leaves the busy flag as it is.
BusyAfterTimeoutKept(isBusy) == isBusy

\* The callback of the busy timer: this._busy = false.
BusyAfterTimeout(isBusy) == FALSE

\* A faulty continuation that leaves the busy flag as it is.
BusyAfterAckKept(isBusy) == isBusy

\* The continuation of a settled write in sendChunk: this._busy = false.
BusyAfterAck(isBusy) == FALSE

\* What a block reports to its caller when send() has returned undefined:
\* getConfig calls .then on undefined inside its promise executor, so its
\* promise is rejected with a TypeError, whichever early return was taken;
\* synthesize drops what displayText returns and reports nothing.
CallerError(kind, rejection) ==
    IF rejection = "" THEN ""
    ELSE IF kind = "getConfig" THEN "TypeError"
    ELSE ""

\* A faulty executor that calls resolve() inside the loop, after the first
\* acknowledged chunk.
SendPromiseResolvedInLoop(cmd) ==
    CASE cmd.pc = "returned" -> "none"
      [] cmd.pc \in {"delay", "sent"} -> "resolved"
      [] OTHER -> "pending"

\* The promise send() returned, from the position of its executor: none when
\* send() returned undefined, resolved after the last chunk and its delay,
\* pending otherwise.  The executor has no catch and no reject parameter, so
\* a throw inside it after the first await settles nothing.
SendPromise(cmd) ==
    CASE cmd.pc = "returned" -> "none"
      [] cmd.pc = "sent" -> "resolved"
      [] OTHER -> "pending"

\* A faulty block that does not count its call.
EventIndexKept(index) == index

\* eventIndex++ at the head of getConfig, synthesize and speak.
NextEventIndex(index) == index + 1

\* Block call number c == Len(cmds) + 1 of the given kind: eventIndex++, the
\* text, displayText, send.  An accepted send sets the busy flag, arms the
\* busy timer, cuts the chunks and, inside the promise executor, calls
\* sendChunk for the first chunk, which calls this._ble.write.  A rejected
\* send returns undefined: getConfig then throws on undefined.then inside its
\* executor and its promise is rejected; synthesize ignores the result.
Send(kind, text) ==
    LET c == Len(cmds) + 1
        key == IF kind = "displayText" THEN eventIndex
               ELSE NextEventIndex(eventIndex)
        rejection == SendRejection(connected, busy)
        cmd == [kind |-> kind, key |-> key,
                n |-> NumChunks[kind, key, text],
                gate |-> rejection]
    IN /\ Len(cmds) < MaxCmds
       /\ eventIndex' = key
       /\ IF rejection # ""
          THEN /\ cmds' = Append(cmds, cmd @@ [pc |-> "returned", idx |-> 0,
                                  promise |-> IF kind = "getConfig"
                                              THEN "rejected" ELSE "none"])
               /\ UNCHANGED <<gateVars, written, output>>
          ELSE /\ busy' = TRUE
               /\ busyTimeoutID' = c
               /\ timers' = timers \cup {c}
               /\ cmds' = Append(cmds, cmd @@ [pc |-> "writing", idx |-> 1,
                                  promise |-> IF kind = "getConfig"
                                              THEN "pending" ELSE "none"])
               /\ written' = Append(written, <<c, 1>>)
               /\ output' = OutputOf[kind, key, text]
       /\ UNCHANGED <<legacy, connected, emitter, session2, rxVars>>

GetConfig == Send("getConfig", <<>>)

\* displayText('') called on the peripheral itself: no block, no key.
DisplayTextEmpty == Send("displayText", <<>>)

\* speak(): eventIndex++, the text of a speak command that is built and not
\* sent (displayText is commented out), and a read of the rx characteristic
\* whose result is only logged.
Speak ==
    /\ eventIndex - Len(cmds) - Len(session2.keys) < MaxSpeaks
    /\ eventIndex' = NextEventIndex(eventIndex)
    /\ UNCHANGED <<legacy, connected, gateVars, cmds, emitter, written, output, session2, rxVars>>

Synthesize == \E text \in Texts : Send("synthesize", text)

\* The transport settles the write of command c's current chunk: sendChunk
\* clears the busy flag, clears the timer _busyTimeoutID names and resolves;
\* send then waits 200 ms.
SendChunkResolved(c) ==
    /\ c \in 1..Len(cmds)
    /\ cmds[c].pc = "writing"
    /\ busy' = BusyAfterAck(busy)
    /\ timers' = timers \ {busyTimeoutID}
    /\ cmds' = [cmds EXCEPT ![c].pc = "delay"]
    /\ UNCHANGED <<legacy, connected, busyTimeoutID, eventIndex, emitter, written, output, session2,
                   rxVars>>

\* A faulty loop that catches the failure and goes on with the next chunk.
LoopAfterRejectGoesOn(pc) == "delay"

\* The position of send's loop after `await this.sendChunk(chunk)` threw:
\* the executor is left, whatever chunks remain.
LoopAfterReject(pc) == "failed"

\* The transport fails the write of command c's current chunk: sendChunk
\* rejects, the await in send's executor throws, and the promise send
\* returned is never settled.
SendChunkRejected(c) ==
    /\ c \in 1..Len(cmds)
    /\ cmds[c].pc = "writing"
    /\ cmds' = [cmds EXCEPT ![c].pc = LoopAfterReject(@)]
    /\ UNCHANGED <<legacy, connected, gateVars, eventIndex, emitter, written, output, session2, rxVars>>

\* A faulty loop that writes the next chunk without awaiting the write of
\* the one before.
MayWriteNextNoAwait(pc) == pc \in {"writing", "delay"}

\* The loop of send goes on to the next chunk only after `await
\* this.sendChunk(chunk)` and the await of the 200 ms delay.
MayWriteNext(pc) == pc = "delay"

\* The 200 ms after a chunk have passed: the next chunk is written, or after
\* the last one send's promise resolves and getConfig's continuation
\* registers its listener under the current value of eventIndex.
DelayElapsed(c) ==
    /\ c \in 1..Len(cmds)
    /\ MayWriteNext(cmds[c].pc)
    /\ IF cmds[c].idx < cmds[c].n
       THEN /\ cmds' = [cmds EXCEPT ![c].pc = "writing", ![c].idx = @ + 1]
            /\ written' = Append(written, <<c, cmds[c].idx + 1>>)
            /\ UNCHANGED emitter
       ELSE /\ cmds' = [cmds EXCEPT ![c].pc = "sent"]
            /\ emitter' = IF cmds[c].kind = "getConfig"
                          THEN Append(emitter, [key |-> eventIndex, c |-> c])
                          ELSE emitter
            /\ UNCHANGED written
    /\ UNCHANGED <<legacy, connected, gateVars, eventIndex, output, session2, rxVars>>

\* The busy timer armed by command t runs, 5000 ms after it was armed.
TimerFire(t) ==
    /\ t \in timers
    /\ busy' = BusyAfterTimeout(busy)
    /\ timers' = timers \ {t}
    /\ UNCHANGED <<legacy, connected, busyTimeoutID, eventIndex, cmds, emitter, written, output, session2,
                   rxVars>>

\* --------------------------------------------------------------- receive
\* The peripheral frames one more message: its text followed by the sentinel.
PeripheralSend(m) ==
    /\ connected
    /\ Len(rxLog) < MaxRx
    /\ rxLog' = Append(rxLog, m)
    /\ rxStream' = rxStream \o m \o <<Sentinel>>
    /\ UNCHANGED <<legacy, connected, gateVars, eventIndex, cmds, emitter, written, output, session2,
                   dataBuffer, rxLast>>

\* dataBuffer.includes(0x00)
IncludesSentinel(buf) == \E i \in 1..Len(buf) : buf[i] = Sentinel

\* A faulty slice that keeps the last byte.
BufWithLast(buf) == buf

\* dataBuffer.slice(0, dataBuffer.length - 1)
BufWithoutLast(buf) == SubSeq(buf, 1, Len(buf) - 1)

\* The commands whose listeners are registered under key, in registration
\* order: what emitter.emit(key, ...) calls.
ListenersOf(key) ==
    LET sel == SelectSeq(emitter, LAMBDA l : l.key = key)
    IN [i \in 1..Len(sel) |-> sel[i].c]

\* emitter.emit(event, ...) throws when the event is 'error' and no listener
\* is registered for it.
EmitThrowsUnhandled(event, ls) == event = ErrorEvent /\ ls = <<>>

\* Whether the listener getConfig registers runs to its end on this response:
\* it reads resJson.device.wakeword, resJson.services.openAI... and throws a
\* TypeError when a record on the way is missing.
HandlerCompletes(resp) == resp = RespFull

\* The listeners without the one registered first under key (emitter.once
\* removes a listener before it calls it).
WithoutFirst(key) ==
    LET i == CHOOSE j \in 1..Len(emitter) :
                 /\ emitter[j].key = key
                 /\ \A h \in 1..(j - 1) : emitter[h].key # key
    IN SubSeq(emitter, 1, i - 1) \o SubSeq(emitter, i + 1, Len(emitter))

\* _onMessage(data): the decoded fragment is appended to dataBuffer; when the
\* buffer holds the sentinel, all but its last byte are parsed and the event
\* is emitted, and the buffer is emptied unless the try block threw.  The
\* result is what the call leaves: the buffer, the listeners, the commands
\* whose promise it resolved, and what it did.
OnMessageResult(data) ==
    LET buf == dataBuffer \o B64Dec(data)
        msg == BufWithoutLast(buf)
        json == JSONparse(msg)
        ls == ListenersOf(json.event)
    IN IF ~IncludesSentinel(buf)
       THEN [buffer |-> buf, emitter |-> emitter, resolved |-> {},
             did |-> Did("incomplete", <<>>, -1, {})]
       ELSE IF ~json.ok
       THEN [buffer |-> buf, emitter |-> emitter, resolved |-> {},
             did |-> Did("parseError", msg, -1, {})]
       ELSE IF EmitThrowsUnhandled(json.event, ls)
       THEN [buffer |-> buf, emitter |-> emitter, resolved |-> {},
             did |-> Did("emitThrew", msg, json.event, {})]
       ELSE IF ls = <<>>
       THEN [buffer |-> <<>>, emitter |-> emitter, resolved |-> {},
             did |-> Did("unmatched", msg, json.event, {})]
       ELSE IF HandlerCompletes(json.response)
       THEN [buffer |-> <<>>,
             emitter |-> SelectSeq(emitter, LAMBDA l : l.key # json.event),
             resolved |-> {ls[i] : i \in 1..Len(ls)},
             did |-> Did("emitted", msg, json.event, {ls[i] : i \in 1..Len(ls)})]
       ELSE [buffer |-> buf,
             emitter |-> WithoutFirst(json.event),
             resolved |-> {},
             did |-> Did("listenerThrew", msg, json.event, {ls[1]})]

\* The transport notifies the next n bytes of the peripheral's stream as one
\* base64 fragment.
OnMessage(n) ==
    /\ connected
    /\ n \in 1..Len(rxStream)
    /\ LET r == OnMessageResult(B64Enc(SubSeq(rxStream, 1, n)))
       IN /\ dataBuffer' = r.buffer
          /\ emitter' = r.emitter
          /\ cmds' = [c \in 1..Len(cmds) |->
                         IF c \in r.resolved
                         THEN [cmds[c] EXCEPT !.promise = "resolved"]
                         ELSE cmds[c]]
          /\ rxLast' = r.did
    /\ rxStream' = SubSeq(rxStream, n + 1, Len(rxStream))
    /\ UNCHANGED <<legacy, connected, gateVars, eventIndex, written, output, session2, rxLog>>

\* -------------------------------------------------------- second instance
\* The module is loaded once, so a second Scratch3KoriBlocks with its own Kori
\* peripheral runs the same functions over the same emitter, dataBuffer and
\* eventIndex.  Its link is connected throughout.

\* speak() on the second instance.
Speak2 ==
    /\ Len(session2.keys) < MaxSpeaks
    /\ eventIndex' = NextEventIndex(eventIndex)
    /\ session2' = [session2 EXCEPT !.keys = Append(@, eventIndex')]
    /\ UNCHANGED <<legacy, connected, gateVars, cmds, emitter, written, output, rxVars>>

\* The second instance's peripheral frames a message.
Peripheral2Send(m) ==
    /\ Len(session2.rxLog) < MaxRx2
    /\ session2' = [session2 EXCEPT !.rxLog = Append(@, m),
                                    !.rxStream = @ \o m \o <<Sentinel>>]
    /\ UNCHANGED <<legacy, connected, gateVars, eventIndex, cmds, emitter, written, output,
                   rxVars>>

\* _onMessage of the second instance, notified of the next n bytes of its
\* own link.
OnMessage2(n) ==
    /\ n \in 1..Len(session2.rxStream)
    /\ LET r == OnMessageResult(B64Enc(SubSeq(session2.rxStream, 1, n)))
       IN /\ dataBuffer' = r.buffer
          /\ emitter' = r.emitter
          /\ cmds' = [c \in 1..Len(cmds) |->
                         IF c \in r.resolved
                         THEN [cmds[c] EXCEPT !.promise = "resolved"]
                         ELSE cmds[c]]
    /\ session2' = [session2 EXCEPT
                       !.rxStream = SubSeq(@, n + 1, Len(session2.rxStream))]
    /\ UNCHANGED <<legacy, connected, gateVars, eventIndex, written, output, rxLog, rxStream,
                   rxLast>>

\* ---------------------------------------------------------- earlier class
\* Buffer.toString() of bytes that are ASCII or occur in no UTF-8 sequence:
\* an ASCII byte is its character, any other byte becomes U+FFFD.
Utf8ToString(bytes) ==
    [i \in 1..Len(bytes) |->
        IF bytes[i] < 128 THEN bytes[i] ELSE ReplacementChar]

\* The fragments the transport notifies to the earlier _onMessage: the
\* sentinel alone, the halves of a message and a whole message, the end of a
\* message fused with the sentinel, and a byte that is not text.
LegacyFragments ==
    {<<Sentinel>>,
     <<LBRACE, KeyTok(1)>>,
     <<RespFull, RBRACE>>,
     RespText(1, RespFull),
     <<RBRACE, Sentinel>>,
     <<InvalidUtf8Byte>>}

\* _onMessage(data) of the earlier class: the fragment decoded to a string;
\* when it is exactly '\0', JSON.parse(this.fullMessage) and then
\* this.fullMessage = '', which a throw of JSON.parse skips; otherwise the
\* string is appended to this.fullMessage.
LegacyOnMessageResult(fullMessage, data) ==
    LET message == Utf8ToString(B64Dec(data))
    IN IF message = <<Sentinel>>
       THEN IF JSONparse(fullMessage).ok
            THEN [fullMessage |-> <<>>, info |-> "endOfMessage"]
            ELSE [fullMessage |-> fullMessage, info |-> "parseThrew"]
       ELSE [fullMessage |-> fullMessage \o message, info |-> "appended"]

\* The transport notifies one fragment to the earlier _onMessage.
LegacyOnMessage(fragment) ==
    /\ connected
    /\ legacy.calls < MaxLegacyRx
    /\ LET r == LegacyOnMessageResult(legacy.fullMessage, B64Enc(fragment))
       IN legacy' = [fullMessage |-> r.fullMessage,
                     calls |-> legacy.calls + 1,
                     info |-> r.info]
    /\ UNCHANGED <<connected, gateVars, eventIndex, cmds, emitter, written, output,
                   session2, rxVars>>

\* ---------------------------------------------------------- specification
Next ==
    \/ Connect
    \/ Disconnect
    \/ GetConfig
    \/ Synthesize
    \/ \E c \in 1..MaxCmds : SendChunkResolved(c)
    \/ \E c \in 1..MaxCmds : SendChunkRejected(c)
    \/ \E c \in 1..MaxCmds : DelayElapsed(c)
    \/ \E t \in 1..MaxCmds : TimerFire(t)
    \/ \E m \in RxMessages : PeripheralSend(m)
    \/ \E n \in 1..Len(rxStream) : OnMessage(n)

Spec == Init /\ [][Next]_vars

\* The event loop runs every timer callback that is due, and the transport
\* settles every write one way or the other.
Fairness ==
    /\ WF_vars(\E t \in 1..MaxCmds : TimerFire(t))
    /\ WF_vars(\E c \in 1..MaxCmds : DelayElapsed(c))
    /\ WF_vars(\E c \in 1..MaxCmds : SendChunkResolved(c) \/ SendChunkRejected(c))

FairSpec == Spec /\ Fairness

\* The sending half alone: the peripheral stays silent.
NextGate ==
    \/ Connect
    \/ Disconnect
    \/ GetConfig
    \/ Synthesize
    \/ \E c \in 1..MaxCmds : SendChunkResolved(c)
    \/ \E c \in 1..MaxCmds : SendChunkRejected(c)
    \/ \E c \in 1..MaxCmds : DelayElapsed(c)
    \/ \E t \in 1..MaxCmds : TimerFire(t)

SpecGate == Init /\ [][NextGate]_vars

\* The receiving half alone: no command is issued, and the peripheral may
\* also name an event 'error'.
NextRx ==
    \/ Connect
    \/ Disconnect
    \/ \E m \in RxMessages \cup {ErrorMessage} : PeripheralSend(m)
    \/ \E n \in 1..Len(rxStream) : OnMessage(n)

SpecRx == Init /\ [][NextRx]_vars

FairSpecGate == SpecGate /\ Fairness

\* The sending half on a link that settles every write within the busy
\* window, so that no busy timer ever runs.
NextPrompt ==
    \/ Connect
    \/ Disconnect
    \/ GetConfig
    \/ Synthesize
    \/ \E c \in 1..MaxCmds : SendChunkResolved(c)
    \/ \E c \in 1..MaxCmds : SendChunkRejected(c)
    \/ \E c \in 1..MaxCmds : DelayElapsed(c)

SpecPrompt == Init /\ [][NextPrompt]_vars

\* Correlation: getConfig on a link that stays connected and acknowledges
\* every write within the busy window, with the peripheral answering.
NextCorr ==
    \/ Connect
    \/ GetConfig
    \/ \E c \in 1..MaxCmds : SendChunkResolved(c)
    \/ \E c \in 1..MaxCmds : DelayElapsed(c)
    \/ \E m \in RxMessages : PeripheralSend(m)
    \/ \E n \in 1..Len(rxStream) : OnMessage(n)

SpecCorr == Init /\ [][NextCorr]_vars

\* Keys: the three blocks on a link that acknowledges every write within the
\* busy window, the peripheral silent.
NextKeys ==
    \/ Connect
    \/ Disconnect
    \/ GetConfig
    \/ Synthesize
    \/ Speak
    \/ \E c \in 1..MaxCmds : SendChunkResolved(c)
    \/ \E c \in 1..MaxCmds : DelayElapsed(c)

SpecKeys == Init /\ [][NextKeys]_vars

\* Two instances: getConfig and the link of this instance, whose peripheral
\* answers event1; speak and the link of the second one, whose peripheral
\* sends event0.
NextSessions ==
    \/ Connect
    \/ GetConfig
    \/ PeripheralSend(RespText(1, RespFull))
    \/ \E n \in 1..Len(rxStream) : OnMessage(n)
    \/ Speak2
    \/ Peripheral2Send(RespText(0, RespFull))
    \/ \E n \in 1..Len(session2.rxStream) : OnMessage2(n)

SpecSessions == Init /\ [][NextSessions]_vars

\* Framing: the blocks called with short texts of any characters, on a link
\* that settles no write.
SynthesizeFrameText == \E text \in FrameTexts : Send("synthesize", text)

NextFrame ==
    \/ Connect
    \/ Disconnect
    \/ GetConfig
    \/ SynthesizeFrameText
    \/ DisplayTextEmpty
    \/ \E t \in 1..MaxCmds : TimerFire(t)

SpecFrame == Init /\ [][NextFrame]_vars

\* The earlier class alone, on a connected link.
NextLegacy ==
    \/ Connect
    \/ \E fragment \in LegacyFragments : LegacyOnMessage(fragment)

SpecLegacy == Init /\ [][NextLegacy]_vars

\* Round trip: one payload without the sentinel, framed as send frames a
\* message, notified to _onMessage in fragments of any sizes.
PayloadBytes == {LBRACE, KeyTok(1), RespFull, RBRACE}
Payloads == UNION {[1..n -> PayloadBytes] : n \in 0..MaxPayloadLen}

InitRT ==
    /\ connected = TRUE
    /\ busy = FALSE
    /\ busyTimeoutID = 0
    /\ timers = {}
    /\ eventIndex = 0
    /\ cmds = <<>>
    /\ emitter = <<>>
    /\ written = <<>>
    /\ output = <<>>
    /\ session2 = [keys |-> <<>>, rxLog |-> <<>>, rxStream |-> <<>>]
    /\ dataBuffer = <<>>
    /\ rxLast = Did("none", <<>>, -1, {})
    /\ legacy = LegacyInit
    /\ \E P \in Payloads :
          /\ rxLog = <<P>>
          /\ rxStream = Framed(P)

NextRT == \E n \in 1..Len(rxStream) : OnMessage(n)

SpecRT == InitRT /\ [][NextRT]_vars

\* ------------------------------------------------------------ vocabulary
Accepted(c) == c \in 1..Len(cmds) /\ cmds[c].gate = ""

\* Command c has been accepted and some of its fragments are still to be
\* written.
MidMessage(c) ==
    /\ Accepted(c)
    /\ cmds[c].pc \in {"writing", "delay"}
    /\ cmds[c].idx < cmds[c].n

\* Command c has a listener registered on the emitter.
Registered(c) == \E i \in 1..Len(emitter) : emitter[i].c = c

\* The fragments of the transport log never alternate between two commands.
NoInterleaving ==
    \A i, j, k \in 1..Len(written) :
        (i < j /\ j < k /\ written[i][1] = written[k][1])
            => written[j][1] = written[i][1]

\* The fragments of command c on the transport, in the order of their writes.
FragmentsOf(c) == SelectSeq(written, LAMBDA w : w[1] = c)

\* The last command whose send() was accepted: the one that framed output.
LastAccepted == CHOOSE c \in 1..Len(cmds) :
    Accepted(c) /\ \A d \in (c + 1)..Len(cmds) : ~Accepted(d)

\* The slices of a list joined in order.
RECURSIVE Concat(_)
Concat(slices) ==
    IF slices = <<>> THEN <<>>
    ELSE Head(slices) \o Concat(Tail(slices))

\* The last call of _onMessage parsed a message and emitted its event.
Delivered(did) == did.info \in {"unmatched", "emitted", "listenerThrew"}

\* The bytes before the first sentinel of buf, and the bytes after it.
FirstSentinel(buf) == CHOOSE i \in 1..Len(buf) :
    buf[i] = Sentinel /\ \A h \in 1..(i - 1) : buf[h] # Sentinel
BeforeFirstSentinel(buf) == SubSeq(buf, 1, FirstSentinel(buf) - 1)
AfterFirstSentinel(buf) == SubSeq(buf, FirstSentinel(buf) + 1, Len(buf))

\* ------------------------------------------------------------------ claims

\* C1: at most one outbound message is in flight: while an accepted message
\* still has fragments to write, no other send() is accepted, so the
\* fragments of two messages are never interleaved on the transport.
C1_OneMessageInFlight ==
    /\ \A c, d \in 1..Len(cmds) : (c < d /\ Accepted(d)) => ~MidMessage(c)
    /\ NoInterleaving

\* C2: a reassembled message that fails to parse does not block later
\* messages: after the parse failure the buffer is empty, and once the whole
\* stream has been notified a well-formed message that followed a malformed
\* one has been delivered.
C2_ParseFailureDiscardsBuffer ==
    /\ rxLast.info = "parseError" => dataBuffer = <<>>
    /\ (/\ rxStream = <<>>
        /\ Len(rxLog) = 2
        /\ ~JSONparse(rxLog[1]).ok
        /\ JSONparse(rxLog[2]).ok)
           => (Delivered(rxLast) /\ rxLast.bufWithoutLast = rxLog[2])

\* C3: the gate never stays Busy forever: while it is Busy the timer that
\* _busyTimeoutID names is armed, it eventually runs (or the gate is released
\* before), the gate is Idle again, and a send() on a connected transport
\* with the gate Idle is accepted.
C3_BusyEventuallyIdle ==
    /\ [](busy => busyTimeoutID \in timers)
    /\ busy ~> ~busy
    /\ [][(/\ Len(cmds') = Len(cmds) + 1
           /\ connected
           /\ ~busy) => cmds'[Len(cmds')].gate = ""]_vars

\* C3 witness: the first command's write was never acknowledged, so only its
\* busy timer can have released the gate, and a later send() was accepted.
C3_Witness ==
    /\ Len(cmds) = 2
    /\ Accepted(1) /\ cmds[1].pc = "writing" /\ cmds[1].idx = 1
    /\ Accepted(2)
    /\ 1 \notin timers

\* C4: round trip.  For every payload without the sentinel and every
\* partition of its framed bytes into fragments, _onMessage takes no message
\* before the last fragment, and on the last fragment takes exactly the
\* payload as the message; a well-formed payload is delivered and the buffer
\* is empty afterwards.
C4_RoundTrip ==
    /\ rxStream # <<>> => rxLast.info \in {"none", "incomplete"}
    /\ rxStream = <<>> =>
          /\ rxLast.info \notin {"none", "incomplete"}
          /\ rxLast.bufWithoutLast = rxLog[1]
          /\ JSONparse(rxLog[1]).ok => (Delivered(rxLast) /\ dataBuffer = <<>>)

\* C4 witness: the whole framed stream of a well-formed payload has been
\* notified, and the payload was reassembled and delivered.
C4_Witness ==
    /\ rxStream = <<>>
    /\ rxLog[1] = RespText(1, RespFull)
    /\ rxLast.bufWithoutLast = rxLog[1]
    /\ Delivered(rxLast)
    /\ dataBuffer = <<>>

\* C5: whenever the buffer holds the sentinel (and the bytes before the
\* first sentinel are a well-formed message), _onMessage takes the bytes
\* before the first sentinel as the message and keeps the bytes after it as
\* the next buffer.
C5_SplitsAtFirstSentinel ==
    [][\A n \in 1..Len(rxStream) :
          LET buf == dataBuffer \o B64Dec(B64Enc(SubSeq(rxStream, 1, n)))
          IN (/\ OnMessage(n)
              /\ IncludesSentinel(buf)
              /\ JSONparse(BeforeFirstSentinel(buf)).ok)
                 => /\ rxLast'.bufWithoutLast = BeforeFirstSentinel(buf)
                    /\ dataBuffer' = AfterFirstSentinel(buf)]_vars

\* C6: the waiter of a command is registered before its first fragment is
\* written: whenever a fragment of an accepted getConfig is on the transport
\* and its promise is still pending, its listener is registered.
C6_WaiterBeforeFirstFragment ==
    \A c \in 1..Len(cmds) :
        (/\ cmds[c].kind = "getConfig"
         /\ \E i \in 1..Len(written) : written[i][1] = c
         /\ cmds[c].promise = "pending")
            => Registered(c)

\* C7: every accepted getConfig eventually completes for its caller: its
\* promise does not stay pending forever.
C7_AcceptedEventuallySettles ==
    \A c \in 1..MaxCmds :
        (Accepted(c) /\ cmds[c].kind = "getConfig")
            ~> (c \in 1..Len(cmds) /\ cmds[c].promise # "pending")

\* C8: a message that _onMessage delivers calls the listeners of exactly the
\* commands that wait under the message's key: every registered command
\* whose key is the message's key is called with the response, and no
\* command with another key is.
C8_ResponseResolvesItsCommand ==
    [][\A n \in 1..Len(rxStream) :
          (OnMessage(n) /\ Delivered(rxLast'))
              => rxLast'.called =
                    {c \in 1..Len(cmds) :
                        Registered(c) /\ cmds[c].key = rxLast'.event}]_vars

\* C9: the gate goes from Busy to Idle only when a response is received or
\* when the busy timer runs.
C9_ReleaseOnlyOnResponseOrTimeout ==
    [][(busy /\ ~busy') =>
          \/ \E t \in timers : TimerFire(t)
          \/ \E n \in 1..Len(rxStream) : OnMessage(n) /\ Delivered(rxLast')]_vars

\* C10: a send() issued while the gate is Busy has no effect: no fragment is
\* written, no timer is armed, the busy flag and the timer handle are
\* unchanged, and the message is not queued (none of its fragments is ever
\* written).
C10_BusySendHasNoEffect ==
    /\ [][(/\ Len(cmds') = Len(cmds) + 1
           /\ connected
           /\ busy) => /\ UNCHANGED <<busy, busyTimeoutID, timers, written>>
                       /\ cmds'[Len(cmds')].pc = "returned"]_vars
    /\ [](\A c \in 1..Len(cmds) :
            cmds[c].gate = "busy" =>
                /\ cmds[c].pc = "returned"
                /\ \A i \in 1..Len(written) : written[i][1] # c)

\* C10 witness: a send() was rejected because the gate was Busy, and the
\* gate still holds the earlier message's timer.
C10_Witness ==
    /\ Len(cmds) = 2
    /\ cmds[2].gate = "busy"
    /\ busy
    /\ busyTimeoutID = 1
    /\ timers = {1}

\* C11: a command issued while the gate is Busy fails at once with a Busy
\* error reported to its caller, and the pending waiters are the same after
\* the call as before it.
C11_BusyErrorToCaller ==
    [][(/\ Len(cmds') = Len(cmds) + 1
        /\ connected
        /\ busy) =>
           /\ CallerError(cmds'[Len(cmds')].kind, cmds'[Len(cmds')].gate) = "busy"
           /\ cmds'[Len(cmds')].promise = "rejected"
           /\ emitter' = emitter]_vars

\* C12: when a fragment write fails, the gate is Idle afterwards and no
\* waiter remains registered for the command.
C12_WriteFailureReleasesGate ==
    [][\A c \in 1..Len(cmds) :
          SendChunkRejected(c) => (~busy' /\ ~(Registered(c))')]_vars

\* C13: when a fragment write fails, the promise send() returned is settled
\* with the failure.
C13_WriteFailureSurfaced ==
    \A c \in 1..Len(cmds) :
        cmds[c].pc = "failed" => SendPromise(cmds[c]) = "rejected"

\* C14: a reassembled message whose key has no pending waiter is tolerated:
\* the call of _onMessage that completes it leaves the busy flag, its timer,
\* the pending waiters and the commands as they are and empties the buffer.
C14_UnmatchedTolerated ==
    [][\A n \in 1..Len(rxStream) :
          LET buf == dataBuffer \o B64Dec(B64Enc(SubSeq(rxStream, 1, n)))
              json == JSONparse(BufWithoutLast(buf))
          IN (/\ OnMessage(n)
              /\ IncludesSentinel(buf)
              /\ json.ok
              /\ ListenersOf(json.event) = <<>>)
                 => /\ UNCHANGED <<busy, busyTimeoutID, timers, emitter, cmds>>
                    /\ dataBuffer' = <<>>]_vars

\* C15: no pending waiter outlives the busy window of its command: when no
\* response arrives, a registered waiter is eventually deregistered.
C15_WaiterDeregisteredOnTimeout ==
    \A c \in 1..MaxCmds : Registered(c) ~> ~Registered(c)

\* C16: the fragments of one message are written in order and one at a
\* time: the fragments of a command on the transport are 1, 2, ... up to its
\* current one, and fragment i + 1 is written only when the write of fragment
\* i has completed and the delay after it is running.
C16_FragmentsInOrder ==
    /\ [](\A c \in 1..Len(cmds) :
            FragmentsOf(c) = [i \in 1..cmds[c].idx |-> <<c, i>>])
    /\ [][\A c \in 1..Len(cmds) :
            (/\ Len(written') = Len(written) + 1
             /\ written'[Len(written')][1] = c)
                => /\ cmds[c].pc = "delay"
                   /\ written'[Len(written')][2] = cmds[c].idx + 1]_vars

\* C16 witness: both fragments of a two-fragment message have been written
\* and acknowledged.
C16_Witness ==
    \E c \in 1..Len(cmds) :
        /\ cmds[c].n = 2
        /\ cmds[c].pc = "sent"
        /\ FragmentsOf(c) = <<(<<c, 1>>), (<<c, 2>>)>>

\* C17: the array handed to the chunker holds the value 0 only at its last
\* position, for every text passed to displayText.
C17_SentinelOnlyLast ==
    \A i \in 1..(Len(output) - 1) : output[i] # Sentinel

\* C18: framing appends exactly one sentinel after the payload, before
\* chunking: the array an accepted send() encodes is the message it was given
\* followed by one byte 0, and the chunks are cut from that array.
C18_FramingAppendsOneSentinel ==
    [][\A kind \in {"getConfig", "synthesize", "displayText"}, text \in FrameTexts :
          (Send(kind, text) /\ cmds'[Len(cmds')].gate = "")
              => LET message == DisplayTextBytes(CmdText(kind, eventIndex', text))
                 IN /\ Len(output') = Len(message) + 1
                    /\ SubSeq(output', 1, Len(message)) = message
                    /\ output'[Len(output')] = Sentinel
                    /\ cmds'[Len(cmds')].n = Len(Chunks(B64Enc(output')))]_vars

\* C18 witness: a message with a text of the greatest length has been framed.
C18_Witness ==
    /\ Len(cmds) >= 1
    /\ Accepted(Len(cmds))
    /\ cmds[Len(cmds)].kind = "synthesize"
    /\ Len(output) = MaxTextLen + 5
    /\ output[Len(output)] = Sentinel
    /\ output[4] = CharA

C20_ResolvedOnce ==
    [][\A n \in 1..Len(rxStream) :
          OnMessage(n) =>
              /\ \A c \in rxLast'.called :
                     cmds[c].promise = "pending" /\ ~(Registered(c))'
              /\ (/\ Len(rxLog) = 2
                  /\ rxLog[1] = rxLog[2]
                  /\ rxStream' = <<>>
                  /\ Delivered(rxLast')
                  /\ \E c \in 1..Len(cmds) : cmds[c].promise = "resolved")
                     => rxLast'.called = {}]_vars

\* C21: registering a waiter under a key that already has a pending waiter
\* fails, so no two waiters are ever pending under the same key.
C21_NoTwoWaitersUnderOneKey ==
    \A i, j \in 1..Len(emitter) :
        i # j => emitter[i].key # emitter[j].key

\* C22: keys are event<N>, N starting at 1 and increasing by one per block
\* call: the counter starts at 0, every block call adds exactly one to it,
\* the text of an accepted command carries the token of the new value, and
\* no two commands carry the same key.
C22_KeysCountUp ==
    /\ eventIndex = 0
    /\ [][(Len(cmds') # Len(cmds) \/ eventIndex' # eventIndex) =>
            /\ eventIndex' = eventIndex + 1
            /\ Len(cmds') # Len(cmds) =>
                  /\ cmds'[Len(cmds')].key = eventIndex'
                  /\ cmds'[Len(cmds')].gate = "" => output'[2] = KeyTok(eventIndex')]_vars
    /\ [](\A c, d \in 1..Len(cmds) :
            /\ cmds[c].key >= 1
            /\ c < d => cmds[c].key < cmds[d].key)

\* C22 witness: two commands were issued with a speak between them, and the
\* second carries event3.
C22_Witness ==
    /\ Len(cmds) = 2
    /\ cmds[1].key = 1
    /\ cmds[2].key = 3
    /\ Accepted(2)
    /\ output[2] = KeyTok(3)

\* C25: two instances never share a reassembly buffer or a key counter: a
\* well-formed message that is the only one this instance's peripheral sent
\* is reassembled and delivered as sent, whatever the other instance
\* receives, and the n-th block call of each instance generates event<n>,
\* whatever the other instance is asked to do.
C25_SessionsShareNothing ==
    /\ (/\ rxStream = <<>>
        /\ Len(rxLog) = 1
        /\ JSONparse(rxLog[1]).ok)
           => (Delivered(rxLast) /\ rxLast.bufWithoutLast = rxLog[1])
    /\ \A c \in 1..Len(cmds) : cmds[c].key = c
    /\ \A i \in 1..Len(session2.keys) : session2.keys[i] = i

\* C26: a payload of length 0 is still transmitted: the framed bytes are
\* exactly one sentinel, and one fragment, the base64 text of that byte, is
\* handed to the transport.
C26_EmptyPayloadSent ==
    [][(Send("displayText", <<>>) /\ cmds'[Len(cmds')].gate = "") =>
          /\ output' = <<Sentinel>>
          /\ cmds'[Len(cmds')].n = 1
          /\ Chunks(B64Enc(output')) = <<(<<0, 0, B64Pad, B64Pad>>)>>
          /\ written' = Append(written, <<Len(cmds'), 1>>)]_vars

\* C26 witness: an empty text was accepted, framed as the sentinel alone,
\* and its fragment is on the transport.
C26_Witness ==
    /\ Len(cmds) >= 1
    /\ cmds[Len(cmds)].kind = "displayText"
    /\ Accepted(Len(cmds))
    /\ output = <<Sentinel>>
    /\ written[Len(written)] = <<Len(cmds), 1>>

\* C27: the key under which getConfig registers its waiter is the key its
\* command carried, whatever blocks were called between the send and the
\* registration.
C27_RegisteredUnderOwnKey ==
    \A i \in 1..Len(emitter) : emitter[i].key = cmds[emitter[i].c].key

\* C23: every gate acquisition arms exactly one timer and a release cancels
\* it: the gate is Busy exactly when one busy timer is armed, that timer is
\* the one _busyTimeoutID names, and no timer is armed while the gate is Idle.
C23_BusyIffOneTimer ==
    /\ [](busy <=> Cardinality(timers) = 1)
    /\ [](busy => timers = {busyTimeoutID})
    /\ [](~busy => timers = {})
    /\ [][(~busy /\ busy') =>
            /\ Cardinality(timers') = Cardinality(timers) + 1
            /\ busyTimeoutID' \in timers' \ timers]_vars

\* C23 witness: the first acquisition was released by its acknowledgement
\* and the gate is held again, with the second timer alone.
C23_Witness ==
    /\ Len(cmds) = 2
    /\ cmds[1].pc \in {"delay", "sent"}
    /\ Accepted(2)
    /\ busy
    /\ timers = {2}

\* C24: a send() while the transport is not connected fails fast: nothing is
\* written, the gate and its timer are untouched, and the caller receives a
\* NotConnected failure.
C24_NotConnectedFailsFast ==
    [][(/\ Len(cmds') = Len(cmds) + 1
        /\ ~connected) =>
           /\ UNCHANGED <<busy, busyTimeoutID, timers, written>>
           /\ cmds'[Len(cmds')].pc = "returned"
           /\ CallerError(cmds'[Len(cmds')].kind, cmds'[Len(cmds')].gate) = "notConnected"]_vars

\* C28: the acknowledgement of a write of an earlier send never clears the
\* busy flag, nor cancels the timer, of a later send that holds the gate.
C28_StaleAckLeavesGate ==
    [][\A c \in 1..Len(cmds) :
          (SendChunkResolved(c) /\ busy /\ busyTimeoutID > c)
              => (busy' /\ timers' = timers)]_vars

\* C29: after every call of _onMessage the buffer holds no sentinel.
C29_NoSentinelInBuffer == ~IncludesSentinel(dataBuffer)

\* C30: when a fragment write fails, no later fragment of that message is
\* written: the failure leaves the loop, and a command whose write failed
\* stays as it is and gets no further fragment on the transport.
C30_NoFragmentAfterFailure ==
    /\ [][\A c \in 1..Len(cmds) :
            SendChunkRejected(c) => cmds'[c].pc = "failed"]_vars
    /\ [][\A c \in 1..Len(cmds) :
            cmds[c].pc = "failed" =>
                /\ cmds'[c] = cmds[c]
                /\ (FragmentsOf(c))' = FragmentsOf(c)]_vars

\* C30 witness: the first of two fragments failed, and a later command was
\* written in full while the second fragment never was.
C30_Witness ==
    /\ Len(cmds) = 2
    /\ cmds[1].pc = "failed" /\ cmds[1].n = 2 /\ cmds[1].idx = 1
    /\ cmds[2].pc = "sent"
    /\ FragmentsOf(1) = <<(<<1, 1>>)>>

\* C31: the chunks send cuts from the encoded framed message have at most 180
\* characters each, all but the last exactly 180, none is empty, their
\* concatenation in order is the encoded text, and the command that framed
\* it writes one fragment per chunk.
C31_ChunksPartitionEncodedText ==
    LET data == B64Enc(output)
        chunks == Chunks(data)
    IN /\ \A k \in 1..Len(chunks) : Len(chunks[k]) \in 1..ChunkSize
       /\ \A k \in 1..(Len(chunks) - 1) : Len(chunks[k]) = ChunkSize
       /\ Concat(chunks) = data
       /\ output # <<>> =>
             /\ cmds[LastAccepted].n = Len(chunks)
             /\ Len(FragmentsOf(LastAccepted)) <= Len(chunks)

\* C31 witness: an encoded text longer than one chunk, cut in two, with both
\* fragments written.
C31_Witness ==
    /\ output # <<>>
    /\ Len(B64Enc(output)) > ChunkSize
    /\ Len(Chunks(B64Enc(output))) = 2
    /\ FragmentsOf(LastAccepted) = <<(<<LastAccepted, 1>>), (<<LastAccepted, 2>>)>>

\* C32: a listener that throws while _onMessage calls it does not keep the
\* buffer from being reset: after such a call the buffer is empty, so the
\* next message starts from an empty buffer.
C32_ListenerThrowStillResets ==
    [][\A n \in 1..Len(rxStream) :
          (OnMessage(n) /\ rxLast'.info = "listenerThrew")
              => dataBuffer' = <<>>]_vars

\* C33: the buffer is empty when a new connection starts receiving: no byte
\* received before a disconnect is part of a message reassembled after the
\* reconnect.
C33_ReconnectStartsEmpty ==
    [][Connect => dataBuffer' = <<>>]_vars

\* C34: disconnect() releases the gate: when it returns the busy flag is
\* false and no busy timer is armed, so that the gate is free when the
\* transport connects again and the first send() is accepted.
C34_DisconnectReleasesGate ==
    [][/\ Disconnect => (~busy' /\ timers' = {})
       /\ Connect => ~busy']_vars

\* C35: the promise of an accepted send() is resolved only when every
\* fragment of its message has been written and the write of the last one
\* acknowledged: while it is resolved all its fragments are on the
\* transport, and the step that resolves it starts after the last
\* fragment's acknowledgement.
C35_ResolvedAfterLastFragment ==
    /\ [](\A c \in 1..Len(cmds) :
            SendPromise(cmds[c]) = "resolved" =>
                /\ Accepted(c)
                /\ cmds[c].idx = cmds[c].n
                /\ FragmentsOf(c) = [k \in 1..cmds[c].n |-> <<c, k>>])
    /\ [][\A c \in 1..Len(cmds) :
            (/\ SendPromise(cmds[c]) # "resolved"
             /\ SendPromise(cmds'[c]) = "resolved")
                => (cmds[c].pc = "delay" /\ cmds[c].idx = cmds[c].n)]_vars

\* C35 witness: the promise of a two-fragment message is resolved, with both
\* fragments written.
C35_Witness ==
    \E c \in 1..Len(cmds) :
        /\ SendPromise(cmds[c]) = "resolved"
        /\ cmds[c].n = 2
        /\ FragmentsOf(c) = <<(<<c, 1>>), (<<c, 2>>)>>

\* C36: in the earlier _onMessage a fragment that is exactly the sentinel
\* ends the message and leaves the accumulated text empty, whether or not
\* the text parsed; any other fragment is appended to the accumulated text.
C36_StreamingScanClearsText ==
    [][\A fragment \in LegacyFragments :
          LegacyOnMessage(fragment) =>
              LET message == Utf8ToString(B64Dec(B64Enc(fragment)))
              IN IF message = <<Sentinel>>
                 THEN legacy'.fullMessage = <<>>
                 ELSE legacy'.fullMessage = legacy.fullMessage \o message]_vars

====
